---- MODULE Spec2Model ----
(***************************************************************************)
(* Model of src/index.js: the host-side external allocator (AllocModule),  *)
(* the panic bridge (PanicModule), the debug bridge (DebugModule) and the  *)
(* part of Runner they use.                                                *)
(*                                                                         *)
(* Numbers are the JS numbers the handlers receive.  Sizes, alignments and *)
(* addresses are non-negative integers far below 2^53, so the arithmetic   *)
(* of the allocator (sum, quotient, Math.ceil, product) is exact.          *)
(* Text is a sequence of Unicode code points.                              *)
(***************************************************************************)
EXTENDS Integers, Sequences

VARIABLES
    blocks,         \* AllocModule.blocks: sequence of AllocBlock
    mem,            \* the bytes of the guest's linear memory
    exportsMemory,  \* whether instance.exports.memory is defined
    last,           \* the boundary call in progress: arguments and outcome
    message,        \* PanicModule.message
    file,           \* PanicModule.file
    line,           \* PanicModule.line
    column,         \* PanicModule.column
    seen,           \* which kinds of panic calls were made so far, and the
                    \* text of the message fragments they carried
    dblog,          \* DebugModule.dblog: sequence of text fragments
    sent            \* the debug fragment calls completed since the last flush

vars == <<blocks, mem, exportsMemory, last, message, file, line, column,
          seen, dblog, sent>>

allocVars == <<blocks>>
panicVars == <<message, file, line, column, seen>>
debugVars == <<dblog, sent>>

\* ------------------------------------------------------------------ bounds
MaxBlocks == 3      \* longest block list explored
MaxSize == 2        \* largest size argument
MaxAlign == 2       \* largest alignment argument
MemSize == 5        \* bytes of guest memory; no block ends beyond it

Sizes == 0..MaxSize
Aligns == 0..MaxAlign
Addresses == 0..(MemSize - 1)

\* The addresses passed to dealloc and realloc.  The two handlers only
\* compare the address with the pointers of the blocks (and realloc may
\* hand it back), so the address of each block and address 0, which no
\* block ever has, stand for every address.
Pointers(bs) == {0} \cup {bs[i].pointer : i \in 1..Len(bs)}

\* The alignment passed to dealloc, which only quotes it in its faults.
DeallocAligns == {1}

NoValue == -1       \* a result the call does not have
NoFault == "none"

\* The bytes the guest has stored in its memory: the UTF-8 text "A", "e"
\* with an acute accent (two bytes), a byte that is never valid UTF-8, "B",
\* and from there on a different byte at every address.
ImageBytes == <<65, 195, 169, 255, 66>>

GuestImage(a) == IF a < Len(ImageBytes) THEN ImageBytes[a + 1] ELSE a

\* ------------------------------------------------------------- AllocBlock
AllocBlock(pointer, size) ==
    [pointer |-> pointer, size |-> size, used |-> TRUE]

NextPointerWith(pointer, size) == pointer + size

NextPointer(block) == NextPointerWith(block.pointer, block.size)

\* ------------------------------------------------------------ AllocModule
\* Math.ceil(address / align) * align, for address >= 0 and align >= 1
AlignPointer(address, align) ==
    ((address + align - 1) \div align) * align

\* The scan loop without the check against the following block.
RECURSIVE ScanBlocksUnchecked(_, _, _, _)
ScanBlocksUnchecked(bs, i, size, align) ==
    IF i > Len(bs) THEN 0
    ELSE IF ~bs[i].used /\ bs[i].size >= size THEN i
    ELSE ScanBlocksUnchecked(bs, i + 1, size, align)

\* The scan loop without the comparison of sizes: any free block will do.
RECURSIVE ScanBlocksAnySize(_, _, _, _)
ScanBlocksAnySize(bs, i, size, align) ==
    IF i > Len(bs) THEN 0
    ELSE IF bs[i].used THEN ScanBlocksAnySize(bs, i + 1, size, align)
    ELSE IF /\ i > 1
            /\ i < Len(bs)
            /\ NextPointerWith(
                   AlignPointer(NextPointer(bs[i - 1]), align), size)
                 > bs[i + 1].pointer
         THEN ScanBlocksAnySize(bs, i + 1, size, align)
         ELSE i

\* The scan loop with a position check that also rejects a candidate whose
\* end reaches the start of the following block.
RECURSIVE ScanBlocksReaching(_, _, _, _)
ScanBlocksReaching(bs, i, size, align) ==
    IF i > Len(bs) THEN 0
    ELSE IF bs[i].used THEN ScanBlocksReaching(bs, i + 1, size, align)
    ELSE IF bs[i].size >= size
         THEN IF /\ i > 1
                 /\ i < Len(bs)
                 /\ NextPointerWith(
                        AlignPointer(NextPointer(bs[i - 1]), align), size)
                      >= bs[i + 1].pointer
              THEN ScanBlocksReaching(bs, i + 1, size, align)
              ELSE i
         ELSE ScanBlocksReaching(bs, i + 1, size, align)

\* The scan loop of newBlock from index i on: the index of the block the
\* loop reuses, or 0 when the loop ends without reusing one.
RECURSIVE ScanBlocks(_, _, _, _)
ScanBlocks(bs, i, size, align) ==
    IF i > Len(bs) THEN 0
    ELSE IF bs[i].used THEN ScanBlocks(bs, i + 1, size, align)
    ELSE IF bs[i].size >= size
         THEN IF /\ i > 1
                 /\ i < Len(bs)
                 /\ NextPointerWith(
                        AlignPointer(NextPointer(bs[i - 1]), align), size)
                      > bs[i + 1].pointer
              THEN ScanBlocks(bs, i + 1, size, align)
              ELSE i
         ELSE ScanBlocks(bs, i + 1, size, align)

\* The block the scan loop selected, as the loop leaves it.
ReuseBlock(bs, i, size, align) ==
    [pointer |-> IF i > 1
                 THEN AlignPointer(NextPointer(bs[i - 1]), align)
                 ELSE bs[i].pointer,
     size |-> size,
     used |-> TRUE]

\* newBlock that places the first block at address 0.
NewBlockAtZero(bs, size, align) ==
    IF align < 1
    THEN [blocks |-> bs, index |-> 0, fault |-> "TypeError"]
    ELSE IF Len(bs) > 0
    THEN LET i == ScanBlocks(bs, 1, size, align) IN
         IF i # 0
         THEN [blocks |-> [bs EXCEPT ![i] = ReuseBlock(bs, i, size, align)],
               index |-> i, fault |-> NoFault]
         ELSE [blocks |-> Append(bs, AllocBlock(
                              AlignPointer(NextPointer(bs[Len(bs)]), align),
                              size)),
               index |-> Len(bs) + 1, fault |-> NoFault]
    ELSE [blocks |-> <<AllocBlock(0, size)>>,
          index |-> 1, fault |-> NoFault]

\* newBlock(self, size, align): the block list after the call, the index of
\* the block returned and the fault thrown.
NewBlock(bs, size, align) ==
    IF align < 1
    THEN [blocks |-> bs, index |-> 0, fault |-> "TypeError"]
    ELSE IF Len(bs) > 0
    THEN LET i == ScanBlocks(bs, 1, size, align) IN
         IF i # 0
         THEN [blocks |-> [bs EXCEPT ![i] = ReuseBlock(bs, i, size, align)],
               index |-> i, fault |-> NoFault]
         ELSE [blocks |-> Append(bs, AllocBlock(
                              AlignPointer(NextPointer(bs[Len(bs)]), align),
                              size)),
               index |-> Len(bs) + 1, fault |-> NoFault]
    ELSE [blocks |-> <<AllocBlock(align, size)>>,
          index |-> 1, fault |-> NoFault]

\* The index of the first block whose pointer is the given one, or 0.
RECURSIVE FindBlock(_, _, _)
FindBlock(bs, i, pointer) ==
    IF i > Len(bs) THEN 0
    ELSE IF bs[i].pointer = pointer THEN i
    ELSE FindBlock(bs, i + 1, pointer)

\* ---------------------------------------------------------- error classes
FreeUnallocedError(pointer, size, align) == "FreeUnallocedError"

FreeAgainError(pointer, size, align) == "FreeAgainError"

\* The constructor's message expression ends in
\*     `... of size ${actualSize}) ` `at 0x${pointer.toString(16)}`
\* with no + between the two template literals: the first is applied as the
\* tag of the second, a string is not callable, and the constructor throws
\* a TypeError before super() is reached.
FreeMismatchedSizeError(pointer, triedSize, triedAlign, actualSize) ==
    "TypeError"

ReallocFreedError(pointer, size, align) == "ReallocFreedError"

ReallocUnallocedError(pointer, size, align) == "ReallocUnallocedError"

\* Same missing + as in FreeMismatchedSizeError.
BlockSizeMismatchError(pointer, expectedSize, align, actualSize) ==
    "TypeError"

\* ------------------------------------------------------------------ Runner
\* Runner.memory(): the exported WebAssembly.Memory object, or the fault.
RunnerMemory ==
    IF exportsMemory
    THEN [fault |-> NoFault, class |-> "Memory"]
    ELSE [fault |-> "FatalError", class |-> "undefined"]

\* new Uint8Array(source, byteOffset, length).  Over an ArrayBuffer it is a
\* view of length bytes at byteOffset.  Any other object is read as an
\* array-like: a WebAssembly.Memory has no length property, so the result
\* is a fresh array of length 0 and byteOffset and length are ignored.
Uint8ArrayOf(source, byteOffset, length) ==
    IF source.class = "ArrayBuffer"
    THEN [view |-> TRUE, byteOffset |-> byteOffset, length |-> length]
    ELSE [view |-> FALSE, byteOffset |-> 0, length |-> 0]

\* The elements of a typed array, given the memory it may be a view of.
Elements(m, array) ==
    [k \in 1..array.length |->
        IF array.view THEN m[array.byteOffset + k - 1] ELSE 0]

\* target.set(source): the guest memory after the call.
TypedArraySet(m, target, source) ==
    IF target.view
    THEN [a \in DOMAIN m |->
            IF /\ a >= target.byteOffset
               /\ a < target.byteOffset + source.length
            THEN Elements(m, source)[a - target.byteOffset + 1]
            ELSE m[a]]
    ELSE m

\* ------------------------------------------------------- allocator calls
\* A boundary call: its name, its arguments, the state its module was in
\* when it began, the value it returned and the class of the fault it threw.
Call(op, args, before, ret, fault) ==
    [op |-> op, args |-> args, before |-> before, ret |-> ret,
     fault |-> fault]

NoCall == Call("none", <<>>, <<>>, NoValue, NoFault)

\* The guest is running: it is not inside a boundary call.
GuestRunning == last = NoCall

\* The boundary call returns and the guest goes on.  A call that faulted
\* does not return to the guest: the fault unwinds run(), the driver reports
\* it, and nothing calls the guest again.
Return ==
    /\ ~GuestRunning
    /\ last.fault = NoFault
    /\ last' = NoCall
    /\ UNCHANGED <<blocks, mem, exportsMemory, panicVars, debugVars>>

\* No block lies outside the guest memory and the list stays within the
\* bound.
WithinBounds(bs) ==
    /\ Len(bs) <= MaxBlocks
    /\ \A i \in 1..Len(bs) : NextPointer(bs[i]) <= MemSize

Alloc(size, align) ==
    LET r == NewBlock(blocks, size, align) IN
    /\ GuestRunning
    /\ WithinBounds(r.blocks)
    /\ blocks' = r.blocks
    /\ last' = Call("alloc", [size |-> size, align |-> align],
                    [blocks |-> blocks, mem |-> mem],
                    IF r.fault = NoFault
                    THEN r.blocks[r.index].pointer ELSE NoValue,
                    r.fault)
    /\ UNCHANGED <<mem, exportsMemory, panicVars, debugVars>>

\* dealloc that compares the sizes before it looks at the used flag.
DeallocResultSizeFirst(bs, pointer, size, align) ==
    LET i == FindBlock(bs, 1, pointer) IN
    IF i = 0
    THEN [blocks |-> bs, fault |-> FreeUnallocedError(pointer, size, align)]
    ELSE IF bs[i].size # size
    THEN [blocks |-> bs,
          fault |-> FreeMismatchedSizeError(pointer, size, align, bs[i].size)]
    ELSE IF ~bs[i].used
    THEN [blocks |-> bs, fault |-> FreeAgainError(pointer, size, align)]
    ELSE [blocks |-> [bs EXCEPT ![i].used = FALSE], fault |-> NoFault]

\* dealloc that takes the freed block out of the list.
DeallocResultRemoving(bs, pointer, size, align) ==
    LET i == FindBlock(bs, 1, pointer) IN
    IF i = 0
    THEN [blocks |-> bs, fault |-> FreeUnallocedError(pointer, size, align)]
    ELSE IF ~bs[i].used
    THEN [blocks |-> bs, fault |-> FreeAgainError(pointer, size, align)]
    ELSE IF bs[i].size # size
    THEN [blocks |-> bs,
          fault |-> FreeMismatchedSizeError(pointer, size, align, bs[i].size)]
    ELSE [blocks |-> SubSeq(bs, 1, i - 1) \o SubSeq(bs, i + 1, Len(bs)),
          fault |-> NoFault]

\* dealloc(pointer, size, align): the block list after the call and the
\* fault thrown.
DeallocResult(bs, pointer, size, align) ==
    LET i == FindBlock(bs, 1, pointer) IN
    IF i = 0
    THEN [blocks |-> bs, fault |-> FreeUnallocedError(pointer, size, align)]
    ELSE IF ~bs[i].used
    THEN [blocks |-> bs, fault |-> FreeAgainError(pointer, size, align)]
    ELSE IF bs[i].size # size
    THEN [blocks |-> bs,
          fault |-> FreeMismatchedSizeError(pointer, size, align, bs[i].size)]
    ELSE [blocks |-> [bs EXCEPT ![i].used = FALSE], fault |-> NoFault]

Dealloc(pointer, size, align) ==
    LET r == DeallocResult(blocks, pointer, size, align) IN
    /\ GuestRunning
    /\ blocks' = r.blocks
    /\ last' = Call("dealloc",
                    [pointer |-> pointer, size |-> size, align |-> align],
                    [blocks |-> blocks, mem |-> mem],
                    NoValue, r.fault)
    /\ UNCHANGED <<mem, exportsMemory, panicVars, debugVars>>

\* realloc without its early return.
ReallocResultNoShortcut(bs, m, pointer, size, align, newSize) ==
    LET i == FindBlock(bs, 1, pointer)
        freed == [bs EXCEPT ![i].used = FALSE]
        memory == RunnerMemory
        origData == Uint8ArrayOf(memory, freed[i].pointer, size)
        r == NewBlock(freed, newSize, align)
        newData == Uint8ArrayOf(memory, r.blocks[r.index].pointer, newSize)
    IN
    IF i = 0
    THEN [blocks |-> bs, mem |-> m, ret |-> NoValue,
          fault |-> ReallocUnallocedError(pointer, size, align)]
    ELSE IF ~bs[i].used
    THEN [blocks |-> bs, mem |-> m, ret |-> NoValue,
          fault |-> ReallocFreedError(pointer, size, align)]
    ELSE IF bs[i].size # size
    THEN [blocks |-> bs, mem |-> m, ret |-> NoValue,
          fault |-> BlockSizeMismatchError(pointer, size, align, bs[i].size)]
    ELSE IF memory.fault # NoFault
    THEN [blocks |-> freed, mem |-> m, ret |-> NoValue,
          fault |-> memory.fault]
    ELSE IF r.fault # NoFault
    THEN [blocks |-> freed, mem |-> m, ret |-> NoValue, fault |-> r.fault]
    ELSE IF origData.length > newData.length
    THEN [blocks |-> r.blocks, mem |-> m, ret |-> NoValue,
          fault |-> "RangeError"]
    ELSE [blocks |-> r.blocks, mem |-> TypedArraySet(m, newData, origData),
          ret |-> r.blocks[r.index].pointer, fault |-> NoFault]

\* realloc(pointer, size, align, newSize): the block list and the guest
\* memory after the call, the address returned and the fault thrown.
ReallocResult(bs, m, pointer, size, align, newSize) ==
    LET i == FindBlock(bs, 1, pointer)
        freed == [bs EXCEPT ![i].used = FALSE]
        memory == RunnerMemory
        origData == Uint8ArrayOf(memory, freed[i].pointer, size)
        r == NewBlock(freed, newSize, align)
        newData == Uint8ArrayOf(memory, r.blocks[r.index].pointer, newSize)
    IN
    IF size = newSize
    THEN [blocks |-> bs, mem |-> m, ret |-> pointer, fault |-> NoFault]
    ELSE IF i = 0
    THEN [blocks |-> bs, mem |-> m, ret |-> NoValue,
          fault |-> ReallocUnallocedError(pointer, size, align)]
    ELSE IF ~bs[i].used
    THEN [blocks |-> bs, mem |-> m, ret |-> NoValue,
          fault |-> ReallocFreedError(pointer, size, align)]
    ELSE IF bs[i].size # size
    THEN [blocks |-> bs, mem |-> m, ret |-> NoValue,
          fault |-> BlockSizeMismatchError(pointer, size, align, bs[i].size)]
    ELSE IF memory.fault # NoFault
    THEN [blocks |-> freed, mem |-> m, ret |-> NoValue,
          fault |-> memory.fault]
    ELSE IF r.fault # NoFault
    THEN [blocks |-> freed, mem |-> m, ret |-> NoValue, fault |-> r.fault]
    ELSE IF origData.length > newData.length
    THEN [blocks |-> r.blocks, mem |-> m, ret |-> NoValue,
          fault |-> "RangeError"]
    ELSE [blocks |-> r.blocks, mem |-> TypedArraySet(m, newData, origData),
          ret |-> r.blocks[r.index].pointer, fault |-> NoFault]

\* The statements of realloc after its lookup, in program order: the block
\* is marked free, origData is constructed, newBlock is called, newData is
\* constructed, newData.set(origData) is called.
ReallocCriticalSection == <<"free", "origData", "newBlock", "newData", "set">>

\* The elements of origData, the array realloc constructs from the address
\* and the size it was given.
ReallocOrigData(m, pointer, size) ==
    Elements(m, Uint8ArrayOf(RunnerMemory, pointer, size))

Realloc(pointer, size, align, newSize) ==
    LET r == ReallocResult(blocks, mem, pointer, size, align, newSize) IN
    /\ GuestRunning
    /\ WithinBounds(r.blocks)
    /\ blocks' = r.blocks
    /\ mem' = r.mem
    /\ last' = Call("realloc",
                    [pointer |-> pointer, size |-> size, align |-> align,
                     newSize |-> newSize],
                    [blocks |-> blocks, mem |-> mem],
                    r.ret, r.fault)
    /\ UNCHANGED <<exportsMemory, panicVars, debugVars>>

\* ---------------------------------------------------------------- text
MaxText == 2        \* longest accumulated message or debug log, in characters
MaxLength == 2      \* longest byte span passed to a text call
MaxLine == 1        \* largest line or column number

Lengths == 0..MaxLength
Lines == 0..MaxLine

\* Code points passed to the single-character calls: a control character, a
\* letter, a character above U+007F and a number above the last code point.
CodePoints == {7, 65, 233, 1114112}

Undefined == <<-1>>    \* the JS value undefined, where a text may stand

ReplacementCharacter == 65533
LastCodePoint == 1114111

\* Number::toString of a non-negative integer: its decimal digits.
RECURSIVE NumberToString(_)
NumberToString(n) ==
    IF n < 10 THEN <<48 + n>>
    ELSE Append(NumberToString(n \div 10), 48 + (n % 10))

\* Array.prototype.join(''): the concatenation of the fragments in order.
RECURSIVE Join(_)
Join(fragments) ==
    IF fragments = <<>> THEN <<>>
    ELSE Head(fragments) \o Join(Tail(fragments))

\* The UTF-8 decoder of a TextDecoder in replacement mode, from byte i of
\* bytes on: cp is the code point being assembled, needed the continuation
\* bytes still expected, lower..upper the range allowed for the next one.
RECURSIVE Utf8Decode(_, _, _, _, _, _)
Utf8Decode(bytes, i, cp, needed, lower, upper) ==
    IF i > Len(bytes)
    THEN IF needed # 0 THEN <<ReplacementCharacter>> ELSE <<>>
    ELSE LET b == bytes[i] IN
    IF needed = 0
    THEN IF b <= 127
         THEN <<b>> \o Utf8Decode(bytes, i + 1, 0, 0, 128, 191)
         ELSE IF b >= 194 /\ b <= 223
         THEN Utf8Decode(bytes, i + 1, b % 32, 1, 128, 191)
         ELSE IF b >= 224 /\ b <= 239
         THEN Utf8Decode(bytes, i + 1, b % 16, 2,
                         IF b = 224 THEN 160 ELSE 128,
                         IF b = 237 THEN 159 ELSE 191)
         ELSE IF b >= 240 /\ b <= 244
         THEN Utf8Decode(bytes, i + 1, b % 8, 3,
                         IF b = 240 THEN 144 ELSE 128,
                         IF b = 244 THEN 143 ELSE 191)
         ELSE <<ReplacementCharacter>>
                  \o Utf8Decode(bytes, i + 1, 0, 0, 128, 191)
    ELSE IF b < lower \/ b > upper
    THEN <<ReplacementCharacter>> \o Utf8Decode(bytes, i, 0, 0, 128, 191)
    ELSE IF needed = 1
    THEN <<cp * 64 + (b % 64)>> \o Utf8Decode(bytes, i + 1, 0, 0, 128, 191)
    ELSE Utf8Decode(bytes, i + 1, cp * 64 + (b % 64), needed - 1, 128, 191)

\* TextDecoder.decode(bytes): a leading byte order mark is dropped.
TextDecode(bytes) ==
    IF Len(bytes) >= 3 /\ SubSeq(bytes, 1, 3) = <<239, 187, 191>>
    THEN Utf8Decode(bytes, 4, 0, 0, 128, 191)
    ELSE Utf8Decode(bytes, 1, 0, 0, 128, 191)

\* Runner.decodeUtf8(pointer, length): the text, or the fault of memory()
\* or of a view that does not fit the buffer.
DecodeUtf8(pointer, length) ==
    IF RunnerMemory.fault # NoFault
    THEN [fault |-> RunnerMemory.fault, text |-> <<>>]
    ELSE IF pointer + length > MemSize
    THEN [fault |-> "RangeError", text |-> <<>>]
    ELSE [fault |-> NoFault,
          text |-> TextDecode([k \in 1..length |-> mem[pointer + k - 1]])]

\* String.fromCodePoint(code): the one-character text, or the fault.
FromCodePoint(code) ==
    IF code < 0 \/ code > LastCodePoint
    THEN [fault |-> "RangeError", text |-> <<>>]
    ELSE [fault |-> NoFault, text |-> <<code>>]

\* ------------------------------------------------------------ PanicModule
\* panic_ch(ch): ch arrives as a number and += appends its decimal digits.
PanicCh(ch) ==
    /\ GuestRunning
    /\ Len(message \o NumberToString(ch)) <= MaxText
    /\ message' = message \o NumberToString(ch)
    /\ seen' = [seen EXCEPT !.fragment = TRUE, !.text = @ \o <<ch>>]
    /\ last' = Call("panic_ch", [ch |-> ch], [message |-> message],
                    NoValue, NoFault)
    /\ UNCHANGED <<file, line, column, mem, exportsMemory, allocVars,
                   debugVars>>

PanicStr(pointer, length) ==
    LET r == DecodeUtf8(pointer, length) IN
    /\ GuestRunning
    /\ Len(message \o r.text) <= MaxText
    /\ message' = IF r.fault = NoFault THEN message \o r.text ELSE message
    /\ seen' = [seen EXCEPT !.fragment = TRUE, !.text = @ \o r.text]
    /\ last' = Call("panic_str", [pointer |-> pointer, length |-> length],
                    [message |-> message], NoValue, r.fault)
    /\ UNCHANGED <<file, line, column, mem, exportsMemory, allocVars,
                   debugVars>>

PanicPutFile(pointer, length) ==
    LET r == DecodeUtf8(pointer, length) IN
    /\ GuestRunning
    /\ file' = IF r.fault = NoFault THEN r.text ELSE file
    /\ seen' = [seen EXCEPT !.file = TRUE]
    /\ last' = Call("panic_put_file",
                    [pointer |-> pointer, length |-> length],
                    [message |-> message], NoValue, r.fault)
    /\ UNCHANGED <<message, line, column, mem, exportsMemory, allocVars,
                   debugVars>>

PanicPutLineColumn(l, c) ==
    /\ GuestRunning
    /\ line' = l
    /\ column' = c
    /\ seen' = [seen EXCEPT !.position = TRUE]
    /\ last' = Call("panic_put_line_column", [line |-> l, column |-> c],
                    [message |-> message], NoValue, NoFault)
    /\ UNCHANGED <<message, file, mem, exportsMemory, allocVars, debugVars>>

\* The text "<no message, "
NoMessagePrefix == <<60, 110, 111, 32, 109, 101, 115, 115, 97, 103, 101, 44, 32>>

\* panic() that builds the placeholder from the file as stored.
WasmPanicErrorNoDefault ==
    LET f == IF file = Undefined THEN <<63>> ELSE file
        m == IF message = <<>>
             THEN NoMessagePrefix \o file \o <<58>> \o NumberToString(line)
                      \o <<58>> \o NumberToString(column) \o <<62>>
             ELSE message
    IN [message |-> m, file |-> f, line |-> line, column |-> column]

\* panic(): the WasmPanicError thrown.
WasmPanicError ==
    LET f == IF file = Undefined THEN <<63>> ELSE file
        m == IF message = <<>>
             THEN NoMessagePrefix \o f \o <<58>> \o NumberToString(line)
                      \o <<58>> \o NumberToString(column) \o <<62>>
             ELSE message
    IN [message |-> m, file |-> f, line |-> line, column |-> column]

Panic ==
    /\ GuestRunning
    /\ last' = Call("panic", <<>>, [message |-> message], WasmPanicError,
                    "WasmPanicError")
    /\ UNCHANGED <<panicVars, mem, exportsMemory, allocVars, debugVars>>

\* ------------------------------------------------------------ DebugModule
DblogCh(code) ==
    LET r == FromCodePoint(code) IN
    /\ GuestRunning
    /\ Len(Join(dblog) \o r.text) <= MaxText
    /\ dblog' = IF r.fault = NoFault THEN Append(dblog, r.text) ELSE dblog
    /\ sent' = IF r.fault = NoFault
               THEN Append(sent, [op |-> "dblog_ch", code |-> code])
               ELSE sent
    /\ last' = Call("dblog_ch", [code |-> code],
                    [dblog |-> dblog, sent |-> sent], NoValue, r.fault)
    /\ UNCHANGED <<mem, exportsMemory, allocVars, panicVars>>

DblogStr(pointer, length) ==
    LET r == DecodeUtf8(pointer, length) IN
    /\ GuestRunning
    /\ Len(Join(dblog) \o r.text) <= MaxText
    /\ Len(dblog) < MaxText
    /\ dblog' = IF r.fault = NoFault THEN Append(dblog, r.text) ELSE dblog
    /\ sent' = IF r.fault = NoFault
               THEN Append(sent, [op |-> "dblog_str", pointer |-> pointer,
                                  length |-> length])
               ELSE sent
    /\ last' = Call("dblog_str", [pointer |-> pointer, length |-> length],
                    [dblog |-> dblog, sent |-> sent], NoValue, r.fault)
    /\ UNCHANGED <<mem, exportsMemory, allocVars, panicVars>>

\* dblog_flush() that does not clear the accumulator.
DblogFlushKeeping ==
    /\ GuestRunning
    /\ dblog' = dblog
    /\ sent' = <<>>
    /\ last' = Call("dblog_flush", <<>>, [dblog |-> dblog, sent |-> sent],
                    Join(dblog), NoFault)
    /\ UNCHANGED <<mem, exportsMemory, allocVars, panicVars>>

\* dblog_flush(): ret is the text handed to console.debug.
DblogFlush ==
    /\ GuestRunning
    /\ dblog' = <<>>
    /\ sent' = <<>>
    /\ last' = Call("dblog_flush", <<>>, [dblog |-> dblog, sent |-> sent],
                    Join(dblog), NoFault)
    /\ UNCHANGED <<mem, exportsMemory, allocVars, panicVars>>

Init ==
    /\ blocks = <<>>
    /\ mem = [a \in Addresses |-> GuestImage(a)]
    /\ exportsMemory \in BOOLEAN
    /\ last = NoCall
    /\ message = <<>>
    /\ file = Undefined
    /\ line = 0
    /\ column = 0
    /\ seen = [fragment |-> FALSE, file |-> FALSE, position |-> FALSE,
               text |-> <<>>]
    /\ dblog = <<>>
    /\ sent = <<>>

\* The guest makes one boundary call at a time: it makes the next one once
\* the call in progress has returned.
Next ==
    \/ /\ GuestRunning
       /\ \E size \in Sizes, align \in Aligns : Alloc(size, align)
    \/ /\ GuestRunning
       /\ \E pointer \in Pointers(blocks), size \in Sizes,
             align \in DeallocAligns :
             Dealloc(pointer, size, align)
    \/ /\ GuestRunning
       /\ \E pointer \in Pointers(blocks), size \in Sizes,
             align \in Aligns, newSize \in Sizes :
             Realloc(pointer, size, align, newSize)
    \/ Return

\* The allocator is followed on a guest that exports its memory.
InitExported == Init /\ exportsMemory

Spec == InitExported /\ [][Next]_vars

NextPanic ==
    \/ /\ GuestRunning
       /\ \E ch \in CodePoints : PanicCh(ch)
    \/ /\ GuestRunning
       /\ \E pointer \in Addresses, length \in Lengths :
             PanicStr(pointer, length)
    \/ /\ GuestRunning
       /\ \E pointer \in Addresses, length \in Lengths :
             PanicPutFile(pointer, length)
    \/ /\ GuestRunning
       /\ \E l \in Lines, c \in Lines : PanicPutLineColumn(l, c)
    \/ Panic
    \/ Return

SpecPanic == Init /\ [][NextPanic]_vars

NextDebug ==
    \/ /\ GuestRunning
       /\ \E code \in CodePoints : DblogCh(code)
    \/ /\ GuestRunning
       /\ \E pointer \in Addresses, length \in Lengths :
             DblogStr(pointer, length)
    \/ DblogFlush
    \/ Return

SpecDebug == Init /\ [][NextDebug]_vars

\* ================================================================ claims
\* The addresses a block occupies: [pointer, pointer + size).
AddressRange(block) == block.pointer .. (block.pointer + block.size - 1)

\* The indices of the blocks of bs at the given address.
BlocksAt(bs, pointer) == {i \in 1..Len(bs) : bs[i].pointer = pointer}

Least(S) == CHOOSE i \in S : \A j \in S : i <= j

AllocatorCall == last.op \in {"alloc", "dealloc", "realloc"}

\* C1: after any sequence of alloc, dealloc and realloc calls, faulting
\* calls included, every two distinct used blocks occupy disjoint address
\* ranges.
C1_UsedBlocksDisjoint ==
    \A i, j \in 1..Len(blocks) :
        (i # j /\ blocks[i].used /\ blocks[j].used)
            => AddressRange(blocks[i]) \cap AddressRange(blocks[j]) = {}

\* Two used blocks of positive size, one of them placed between two other
\* blocks, right after a call that faulted.
C1_Witness ==
    /\ AllocatorCall
    /\ last.fault # NoFault
    /\ Len(blocks) = 3
    /\ \A i \in 1..3 : blocks[i].used /\ blocks[i].size > 0
    /\ blocks[2].pointer # blocks[1].pointer + blocks[1].size

\* C2 (as stated): alloc(size, A) on an empty block list returns exactly A
\* for every A >= 1, and no alloc or realloc call ever returns address 0.
C2_Original ==
    /\ (last.op = "alloc" /\ last.before.blocks = <<>> /\ last.args.align >= 1)
          => (last.fault = NoFault /\ last.ret = last.args.align)
    /\ (last.op \in {"alloc", "realloc"} /\ last.fault = NoFault)
          => last.ret # 0

\* C2 (amended): alloc(size, A) on an empty block list returns exactly A
\* for every A >= 1; no alloc call ever returns address 0 and no realloc
\* call with size # newSize returns address 0; a realloc call with
\* size = newSize returns its address argument, whatever it is.
C2_NeverZero ==
    /\ (last.op = "alloc" /\ last.before.blocks = <<>> /\ last.args.align >= 1)
          => (last.fault = NoFault /\ last.ret = last.args.align)
    /\ (last.op = "alloc" /\ last.fault = NoFault) => last.ret # 0
    /\ (last.op = "realloc" /\ last.fault = NoFault)
          => IF last.args.size = last.args.newSize
             THEN last.ret = last.args.pointer
             ELSE last.ret # 0

\* An alloc on the empty list that returned its alignment.
C2_Witness ==
    /\ last.op = "alloc"
    /\ last.before.blocks = <<>>
    /\ last.args.align = MaxAlign
    /\ last.ret = MaxAlign

\* The position check of alloc on block i of bs: the first block and the
\* last block are not checked; a block in between passes when the previous
\* block's end, aligned up, plus the requested size does not pass the start
\* of the following block.
PositionCheckPasses(bs, i, size, align) ==
    \/ i = 1
    \/ i = Len(bs)
    \/ AlignPointer(bs[i - 1].pointer + bs[i - 1].size, align) + size
          <= bs[i + 1].pointer

\* The free blocks of bs that are large enough and pass the position check.
Reusable(bs, size, align) ==
    {i \in 1..Len(bs) : /\ ~bs[i].used
                        /\ bs[i].size >= size
                        /\ PositionCheckPasses(bs, i, size, align)}

\* alloc, alloc, dealloc of the first, alloc, each with (size, align),
\* started on the block list bs: the addresses of the first and of the last
\* allocation, and whether the dealloc succeeded.
ReuseScenario(bs, size, align) ==
    LET first == NewBlock(bs, size, align)
        p == first.blocks[first.index].pointer
        second == NewBlock(first.blocks, size, align)
        freed == DeallocResult(second.blocks, p, size, align)
        third == NewBlock(freed.blocks, size, align)
    IN [first |-> p, freed |-> freed.fault = NoFault,
        third |-> third.blocks[third.index].pointer]

\* C3 (as stated): alloc is first-fit with reuse.  Whenever the list holds
\* a free block that is large enough and passes the position check, alloc
\* marks the first such block used, returns its address and appends no
\* block; and after alloc(s,a), alloc(s,a), dealloc of the first, a further
\* alloc(s,a) returns the first allocation's address.
C3_Original ==
    /\ (last.op = "alloc" /\ last.fault = NoFault
          /\ Reusable(last.before.blocks, last.args.size, last.args.align)
                # {})
          => LET i == Least(Reusable(last.before.blocks, last.args.size,
                                     last.args.align))
             IN /\ Len(blocks) = Len(last.before.blocks)
                /\ blocks[i].used
                /\ blocks[i].size = last.args.size
                /\ last.ret = blocks[i].pointer
                /\ \A j \in 1..Len(blocks) :
                      j # i => blocks[j] = last.before.blocks[j]
    /\ GuestRunning
          => \A size \in Sizes, align \in 1..MaxAlign :
                LET r == ReuseScenario(blocks, size, align)
                IN r.freed => r.third = r.first

\* C4: dealloc faults FreeUnallocated when no block has the address, and
\* FreeAgain when the block with the address (the first one in list order)
\* is already free, whatever size is given; the block list is unchanged in
\* both cases; and a dealloc repeated right after a successful dealloc of
\* the same address faults FreeAgain.
C4_DeallocFaults ==
    /\ (last.op = "dealloc" /\ BlocksAt(last.before.blocks, last.args.pointer)
                                 = {})
          => (last.fault = "FreeUnallocedError"
                /\ blocks = last.before.blocks)
    /\ (last.op = "dealloc"
          /\ BlocksAt(last.before.blocks, last.args.pointer) # {}
          /\ ~last.before.blocks[
                 Least(BlocksAt(last.before.blocks, last.args.pointer))].used)
          => (last.fault = "FreeAgainError" /\ blocks = last.before.blocks)
    /\ (last.op = "dealloc" /\ last.fault = NoFault)
          => \A size \in Sizes, align \in DeallocAligns :
                LET again == DeallocResult(blocks, last.args.pointer, size,
                                           align)
                IN again.fault = "FreeAgainError" /\ again.blocks = blocks

\* A dealloc of a free block with a size that is not the block's size.
C4_Witness ==
    /\ last.op = "dealloc"
    /\ last.fault = "FreeAgainError"
    /\ \E i \in 1..Len(blocks) :
          /\ blocks[i].pointer = last.args.pointer
          /\ blocks[i].size # last.args.size
          /\ BlocksAt(blocks, last.args.pointer) = {i}

\* C5 (as stated): dealloc on a used block whose tracked size differs from
\* the given size raises FreeMismatchedSize and leaves the block used.
C5_Original ==
    (/\ last.op = "dealloc"
     /\ BlocksAt(last.before.blocks, last.args.pointer) # {}
     /\ LET i == Least(BlocksAt(last.before.blocks, last.args.pointer))
        IN /\ last.before.blocks[i].used
           /\ last.before.blocks[i].size # last.args.size)
        => /\ last.fault = "FreeMismatchedSizeError"
           /\ blocks = last.before.blocks

\* C6: realloc(p, n, a, n) on a live block at p returns p and changes
\* nothing: the block list and every byte of guest memory are the same
\* after the call as before.
C6_ReallocSameSize ==
    (/\ last.op = "realloc"
     /\ last.args.size = last.args.newSize
     /\ \E i \in 1..Len(last.before.blocks) :
           /\ last.before.blocks[i].pointer = last.args.pointer
           /\ last.before.blocks[i].used)
        => /\ last.fault = NoFault
           /\ last.ret = last.args.pointer
           /\ blocks = last.before.blocks
           /\ mem = last.before.mem

\* A realloc to the same size of a live block that a replacement allocation
\* with the given alignment would have moved.
C6_Witness ==
    /\ last.op = "realloc"
    /\ last.args.size = last.args.newSize
    /\ last.args.size > 0
    /\ last.args.align >= 1
    /\ \E i \in 2..Len(blocks) :
          /\ blocks[i].pointer = last.args.pointer
          /\ blocks[i].used
          /\ blocks[i].size = last.args.size
          /\ AlignPointer(blocks[i - 1].pointer + blocks[i - 1].size,
                          last.args.align) # blocks[i].pointer

\* C7 (as stated): a realloc that grows a live block returns an address q
\* such that the first size bytes at q after the call are the first size
\* bytes that were at the original address before the call.
C7_Original ==
    (last.op = "realloc" /\ last.fault = NoFault
        /\ last.args.newSize > last.args.size)
        => \A k \in 0..(last.args.size - 1) :
              mem[last.ret + k] = last.before.mem[last.args.pointer + k]

\* The text "<no message, ?:0:0>"
NoMessageText ==
    <<60, 110, 111, 32, 109, 101, 115, 115, 97, 103, 101, 44, 32,
      63, 58, 48, 58, 48, 62>>

\* C8: on a panic bridge that received no message fragment, no file name
\* and no line/column, panic raises a fault whose message is exactly
\* "<no message, ?:0:0>", with file "?", line 0 and column 0.
C8_PlaceholderPanic ==
    (last.op = "panic" /\ ~seen.fragment /\ ~seen.file /\ ~seen.position)
        => /\ last.fault = "WasmPanicError"
           /\ last.ret = [message |-> NoMessageText, file |-> <<63>>,
                          line |-> 0, column |-> 0]

\* A panic call on a bridge that received nothing.
C8_Witness ==
    /\ last.op = "panic"
    /\ ~seen.fragment /\ ~seen.file /\ ~seen.position

\* The text a completed debug fragment call appends.
FragmentOf(call) ==
    IF call.op = "dblog_ch"
    THEN <<call.code>>
    ELSE TextDecode([k \in 1..call.length |-> mem[call.pointer + k - 1]])

\* The concatenation, in call order, of the fragments of the calls.
RECURSIVE FragmentsOf(_)
FragmentsOf(calls) ==
    IF calls = <<>> THEN <<>>
    ELSE FragmentOf(Head(calls)) \o FragmentsOf(Tail(calls))

\* C9: each flush emits exactly the concatenation, in call order, of the
\* fragments appended since the previous flush (or since creation), and a
\* flush with no fragment appended since the previous flush emits the empty
\* text.
C9_FlushEmitsFragments ==
    last.op = "dblog_flush"
        => /\ last.ret = FragmentsOf(last.before.sent)
           /\ last.before.sent = <<>> => last.ret = <<>>
           /\ sent = <<>>

\* A flush of two or more fragments, the first of them not empty.
C9_Witness ==
    /\ last.op = "dblog_flush"
    /\ Len(last.before.sent) >= 2
    /\ last.before.sent[1].op = "dblog_str"
    /\ last.before.sent[2].op = "dblog_ch"
    /\ Len(last.ret) >= 2

\* C10 (as stated): each panic_ch(codepoint) call appends exactly one
\* character, the character of that code point, to the accumulated panic
\* message.
C10_Original ==
    last.op = "panic_ch"
        => message = Append(last.before.message, last.args.ch)

\* The position of a statement in realloc's critical section.
StepOf(name) ==
    CHOOSE k \in 1..Len(ReallocCriticalSection) :
        ReallocCriticalSection[k] = name

\* The call in progress is a realloc with size # newSize of a used block
\* whose tracked size is the size given.
ReallocOfLiveBlock ==
    /\ last.op = "realloc"
    /\ last.args.size # last.args.newSize
    /\ BlocksAt(last.before.blocks, last.args.pointer) # {}
    /\ LET i == Least(BlocksAt(last.before.blocks, last.args.pointer))
       IN /\ last.before.blocks[i].used
          /\ last.before.blocks[i].size = last.args.size

\* C11 (as stated): within a realloc with size # newSize on a live block,
\* the first size bytes at the address are copied into a buffer of their own
\* before the block is marked free and before the replacement allocation is
\* requested.
C11_Original ==
    ReallocOfLiveBlock
        => /\ ReallocOrigData(last.before.mem, last.args.pointer,
                              last.args.size)
                = [k \in 1..last.args.size |->
                      last.before.mem[last.args.pointer + k - 1]]
           /\ StepOf("origData") < StepOf("free")
           /\ StepOf("origData") < StepOf("newBlock")

\* The address alloc computes for block i of bs: the end of the previous
\* block, aligned up.
Candidate(bs, i, align) ==
    AlignPointer(bs[i - 1].pointer + bs[i - 1].size, align)

\* alloc's scan considers block i of bs: the block is free and large enough,
\* it is neither the first nor the last block, and no block before it was
\* selected.
Considered(bs, i, size, align) ==
    /\ i > 1
    /\ i < Len(bs)
    /\ ~bs[i].used
    /\ bs[i].size >= size
    /\ \A j \in Reusable(bs, size, align) : j >= i

\* C12 (as stated): when alloc considers a free, large-enough, non-first
\* block that has a following block, and the candidate address plus the
\* requested size is greater than or equal to the following block's start,
\* the block is left free with its address and size unchanged.
C12_Original ==
    (last.op = "alloc" /\ last.fault = NoFault)
        => \A i \in 1..Len(last.before.blocks) :
              (/\ Considered(last.before.blocks, i, last.args.size,
                             last.args.align)
               /\ Candidate(last.before.blocks, i, last.args.align)
                     + last.args.size
                     >= last.before.blocks[i + 1].pointer)
                 => blocks[i] = last.before.blocks[i]

\* C12 (amended): when alloc considers such a block and the candidate
\* address plus the requested size is greater than the following block's
\* start, the block is left free with its address and size unchanged and
\* the block alloc returns is a later one; when the sum is at most the
\* following block's start, the block is reused at the candidate address.
C12_RejectsPassing ==
    (last.op = "alloc" /\ last.fault = NoFault)
        => \A i \in 1..Len(last.before.blocks) :
              Considered(last.before.blocks, i, last.args.size,
                         last.args.align)
                 => LET c == Candidate(last.before.blocks, i,
                                       last.args.align)
                    IN IF c + last.args.size
                             > last.before.blocks[i + 1].pointer
                       THEN /\ blocks[i] = last.before.blocks[i]
                            /\ \E j \in (i + 1)..Len(blocks) :
                                  /\ blocks[j] = [pointer |-> last.ret,
                                                  size |-> last.args.size,
                                                  used |-> TRUE]
                                  /\ j <= Len(last.before.blocks)
                                        => ~last.before.blocks[j].used
                       ELSE /\ blocks[i] = [pointer |-> c,
                                            size |-> last.args.size,
                                            used |-> TRUE]
                            /\ last.ret = c
                            /\ Len(blocks) = Len(last.before.blocks)

\* An alloc that rejected a block of positive size for its position and
\* went on to reuse a later block.
C12_Witness ==
    /\ last.op = "alloc"
    /\ last.fault = NoFault
    /\ Len(blocks) = Len(last.before.blocks)
    /\ \E i \in 1..Len(last.before.blocks) :
          /\ Considered(last.before.blocks, i, last.args.size,
                        last.args.align)
          /\ last.args.size > 0
          /\ Candidate(last.before.blocks, i, last.args.align)
                + last.args.size > last.before.blocks[i + 1].pointer

\* C13: after any sequence of alloc, dealloc and realloc calls the block
\* list, free and used blocks alike, is ordered by non-decreasing address,
\* and no call leaves the list shorter than it found it.
C13_OrderedAndGrowing ==
    /\ \A i \in 1..(Len(blocks) - 1) :
          blocks[i].pointer <= blocks[i + 1].pointer
    /\ AllocatorCall => Len(blocks) >= Len(last.before.blocks)

\* An alloc that reused the middle block of three at another address than
\* the block had.
C13_Witness ==
    /\ last.op = "alloc"
    /\ last.fault = NoFault
    /\ Len(blocks) = 3
    /\ Len(last.before.blocks) = 3
    /\ ~last.before.blocks[2].used
    /\ blocks[2].used
    /\ blocks[2].pointer # last.before.blocks[2].pointer

\* C14 (as stated): realloc with size # newSize faults ReallocUnallocated
\* when no block has the address, ReallocFreed when the block with the
\* address is free, and BlockSizeMismatch when that block is used but its
\* tracked size differs from size; in each case no block is changed.
C14_Original ==
    (last.op = "realloc" /\ last.args.size # last.args.newSize)
        => LET at == BlocksAt(last.before.blocks, last.args.pointer) IN
           /\ at = {}
                 => /\ last.fault = "ReallocUnallocedError"
                    /\ blocks = last.before.blocks
           /\ (at # {} /\ ~last.before.blocks[Least(at)].used)
                 => /\ last.fault = "ReallocFreedError"
                    /\ blocks = last.before.blocks
           /\ (at # {} /\ last.before.blocks[Least(at)].used
                 /\ last.before.blocks[Least(at)].size # last.args.size)
                 => /\ last.fault = "BlockSizeMismatchError"
                    /\ blocks = last.before.blocks

\* C15 (as stated): a realloc that shrinks a live block completes without
\* a fault and returns an address q at which a used block of size newSize
\* is tracked and whose first newSize bytes equal the first newSize bytes
\* that were at the original address before the call.
C15_Original ==
    (/\ ReallocOfLiveBlock
     /\ last.args.newSize < last.args.size
     /\ last.args.align >= 1)
        => /\ last.fault = NoFault
           /\ \E j \in 1..Len(blocks) :
                 blocks[j] = [pointer |-> last.ret,
                              size |-> last.args.newSize, used |-> TRUE]
           /\ \A k \in 0..(last.args.newSize - 1) :
                 mem[last.ret + k] = last.before.mem[last.args.pointer + k]

\* The call in progress is a realloc that grows a live block which is the
\* last block of the list.
GrowOfLastBlock ==
    /\ ReallocOfLiveBlock
    /\ last.args.newSize > last.args.size
    /\ last.args.align >= 1
    /\ Least(BlocksAt(last.before.blocks, last.args.pointer))
          = Len(last.before.blocks)

\* C16 (as stated): when realloc grows a live block that is the last block
\* in the list, the block it has just freed is reused as the new block and
\* the block list does not gain a block.
C16_Original ==
    GrowOfLastBlock
        => LET i == Len(last.before.blocks) IN
           /\ last.fault = NoFault
           /\ Len(blocks) = Len(last.before.blocks)
           /\ blocks[i].used
           /\ blocks[i].size = last.args.newSize
           /\ last.ret = blocks[i].pointer

\* C16 (amended): when realloc grows a live block that is the last block in
\* the list, the block it has just freed is not reused: it stays in the
\* list, free, with its address and size.  The new block is the first
\* earlier free block that is large enough and passes the position check,
\* and when there is none a block is appended after the freed one and the
\* list gains exactly one block.
C16_GrowLeavesFreedBlock ==
    GrowOfLastBlock
        => LET i == Len(last.before.blocks)
               fit == Reusable(last.before.blocks, last.args.newSize,
                               last.args.align)
           IN /\ last.fault = NoFault
              /\ blocks[i] = [last.before.blocks[i] EXCEPT !.used = FALSE]
              /\ IF fit = {}
                 THEN /\ Len(blocks) = i + 1
                      /\ blocks[i + 1]
                            = [pointer |-> AlignPointer(
                                   last.args.pointer + last.args.size,
                                   last.args.align),
                               size |-> last.args.newSize, used |-> TRUE]
                      /\ last.ret = blocks[i + 1].pointer
                 ELSE /\ Len(blocks) = i
                      /\ Least(fit) < i
                      /\ blocks[Least(fit)].used
                      /\ blocks[Least(fit)].size = last.args.newSize
                      /\ last.ret = blocks[Least(fit)].pointer

\* A realloc that grew the last block of positive size of a list of two:
\* the list gained a block.
C16_Witness ==
    /\ GrowOfLastBlock
    /\ last.args.size > 0
    /\ Len(last.before.blocks) = 2
    /\ Len(blocks) = 3

\* The text "<no message, {file}:{line}:{column}>" for the file, line and
\* column the bridge holds, "?" standing for a file never set.
Placeholder ==
    NoMessagePrefix \o (IF file = Undefined THEN <<63>> ELSE file) \o <<58>>
        \o NumberToString(line) \o <<58>> \o NumberToString(column) \o <<62>>

\* C17 (as stated): the terminal panic call raises the placeholder message
\* only if no message-fragment call (panic_ch or panic_str) was made before
\* it; if at least one was made, the raised message is the concatenation of
\* the fragments in call order, the fragment of panic_ch being the character
\* of its code point and that of panic_str the decoded text.
C17_Original ==
    last.op = "panic"
        => IF seen.fragment
           THEN last.ret.message = seen.text
           ELSE last.ret.message = Placeholder

\* C18 (as stated): every allocator call that ends in a fault, a call with
\* align < 1 included, leaves the block list exactly as it was before the
\* call.
C18_Original ==
    (AllocatorCall /\ last.fault # NoFault) => blocks = last.before.blocks

\* C19 (as stated): every address returned by alloc(size, align) with
\* align >= 1 is a multiple of align, whether the block is newly created,
\* appended or reused.
C19_Original ==
    (last.op = "alloc" /\ last.fault = NoFault /\ last.args.align >= 1)
        => last.ret % last.args.align = 0

\* C20 (as stated): the block of a live allocation keeps its address and
\* its size through any later alloc call, and dealloc(p, size, align) of a
\* live allocation succeeds and marks exactly that allocation's block free.
\* While the guest runs, the used blocks are the live allocations.
C20_Original ==
    /\ (last.op = "alloc" /\ last.fault = NoFault)
          => \A j \in 1..Len(last.before.blocks) :
                last.before.blocks[j].used
                   => blocks[j] = last.before.blocks[j]
    /\ GuestRunning
          => \A j \in 1..Len(blocks), align \in DeallocAligns :
                blocks[j].used
                   => DeallocResult(blocks, blocks[j].pointer,
                                    blocks[j].size, align)
                         = [blocks |-> [blocks EXCEPT ![j].used = FALSE],
                            fault |-> NoFault]

TypeOK ==
    /\ Len(blocks) <= MaxBlocks
    /\ exportsMemory \in BOOLEAN
====
